---- MODULE Spec2Model ----
(***************************************************************************)
(* Model of the redshift-data-warehouse application: the connection        *)
(* prober (test_connection), the statement executor (run_queries), the     *)
(* provisioner (setup), the decommissioner (teardown), the command         *)
(* surface (main) and the warehouse tables the SQL batches act on.  Each   *)
(* component is a record-valued variable holding the arguments, locals     *)
(* and observable calls of its function.                                   *)
(***************************************************************************)
EXTENDS Integers, Sequences, FiniteSets, Bags, TLC

(* ------------------------------ bounds --------------------------------- *)
\* largest value of the `retries` argument drawn for the two retry loops
MaxRetries == 3
\* largest number of leading connect failures of the probed target
MaxFails == 4
\* longest statement batch handed to run_queries
MaxBatch == 3
\* largest number of security groups matching SECURITY_GROUP_NAME
MaxGroups == 2
\* largest number of run_queries calls made against one warehouse
MaxBatchRuns == 8

\* the `delay` arguments drawn for the two retry loops (seconds)
Delays == {5, 10}

VARIABLES
    tc,     \* test_connection (create_tables.py:19-71)
    rq,     \* run_queries (create_tables.py:74-157)
    db,     \* the warehouse as seen by the batch connection of run_queries
    td,     \* teardown (teardown.py:29-97)
    su,     \* setup (setup.py:45-244)
    pk,     \* the file setup_output.pkl: << >> (no file) or << its opcode stream >>
    m,      \* main and the command functions (__main__.py:31-147)
    wh,     \* the warehouse: its tables and the batches run against them
    dumped  \* history: << the tuple last handed to pickle.dump >>, or << >>

vars == <<tc, rq, db, td, su, pk, m, wh, dumped>>

(* --------------------------- sql_queries.py ---------------------------- *)
DROP_TABLE_STATEMENTS ==
    << "DROP_SONGPLAYS_TABLE", "DROP_USERS_TABLE", "DROP_SONGS_TABLE",
       "DROP_ARTISTS_TABLE", "DROP_TIME_TABLE", "DROP_STAGING_SONGS_TABLE",
       "DROP_STAGING_EVENTS_TABLE" >>
CREATE_TABLE_STATEMENTS ==
    << "CREATE_STAGING_EVENTS_TABLE", "CREATE_STAGING_SONGS_TABLE",
       "CREATE_SONGPLAYS_TABLE", "CREATE_ARTISTS_TABLE", "CREATE_SONGS_TABLE",
       "CREATE_TIME_TABLE", "CREATE_USERS_TABLE" >>
COPY_STATEMENTS == << "COPY_STAGING_SONGS", "COPY_STAGING_LOGS" >>
INSERT_STATEMENTS ==
    << "INSERT_USERS_TABLE", "INSERT_SONGS_TABLE", "INSERT_ARTISTS_TABLE",
       "INSERT_TIME_TABLE", "INSERT_SONGPLAYS_TABLE" >>
SAMPLE_QUERIES == << "TOP_PLAYED_SONGS_QUERY", "USER_LEVEL_DISTRIBUTION_QUERY" >>

(* ------------------------- test_connection ----------------------------- *)
\* pc         "idle" | "loop" | "returned" | "raised"
\* retries    argument retries
\* delay      argument delay
\* attempt    local attempt
\* failsFirst the target: its first failsFirst connects raise OperationalError
\* connects   number of psycopg2.connect calls made
\* closes     number of conn.close() calls made
\* sleeps     the time.sleep(delay) calls made, in order
TcIdle ==
    [pc |-> "idle", retries |-> 0, delay |-> 0, attempt |-> 0, failsFirst |-> 0,
     connects |-> 0, closes |-> 0, sleeps |-> << >>]

\* entry of test_connection(config, retries, delay): attempt = 1
TestConnectionEntry(retries, delay, failsFirst) ==
    [pc |-> "loop", retries |-> retries, delay |-> delay, attempt |-> 1,
     failsFirst |-> failsFirst, connects |-> 0, closes |-> 0, sleeps |-> << >>]

\* while attempt <= retries
TcLoopCondOffByOne(attempt, retries) == attempt < retries
TcLoopCond(attempt, retries) == attempt <= retries

\* the target's answer to the n-th connect
ConnectSucceeds(n) == n > tc.failsFirst

\* the loop condition is false: the function falls off its end and returns None
TestConnectionFallThrough ==
    /\ tc.pc = "loop"
    /\ ~TcLoopCond(tc.attempt, tc.retries)
    /\ tc' = [tc EXCEPT !.pc = "returned"]
    /\ UNCHANGED <<rq, db, td, su, pk, m, wh, dumped>>

\* one iteration whose connect succeeds: conn.close(); return
TestConnectionAttemptOk ==
    /\ tc.pc = "loop"
    /\ TcLoopCond(tc.attempt, tc.retries)
    /\ ConnectSucceeds(tc.connects + 1)
    /\ tc' = [tc EXCEPT !.connects = @ + 1, !.closes = @ + 1, !.pc = "returned"]
    /\ UNCHANGED <<rq, db, td, su, pk, m, wh, dumped>>

\* the handler's test after attempt += 1: if attempt <= retries: sleep(delay)
\* else: raise
TcSleepFollows(attempt, retries) == attempt <= retries

\* one iteration whose connect raises psycopg2.OperationalError: the handler
\* counts the attempt, then sleeps (another attempt follows) or re-raises
TestConnectionAttemptFail ==
    /\ tc.pc = "loop"
    /\ TcLoopCond(tc.attempt, tc.retries)
    /\ ~ConnectSucceeds(tc.connects + 1)
    /\ tc' = [tc EXCEPT
                !.connects = @ + 1,
                !.attempt = @ + 1,
                !.sleeps = IF TcSleepFollows(tc.attempt + 1, tc.retries)
                              THEN Append(@, tc.delay) ELSE @,
                !.pc = IF TcSleepFollows(tc.attempt + 1, tc.retries)
                          THEN "loop" ELSE "raised"]
    /\ UNCHANGED <<rq, db, td, su, pk, m, wh, dumped>>

(* ----------------------------- run_queries ----------------------------- *)
\* pc        "idle" | "connect" | "cursor" | "for" | "while" | "returned" | "raised"
\* queries   argument queries
\* retries   argument retries
\* delay     argument delay
\* idx       position of the for loop in queries (1-based)
\* attempt   local attempt
\* success   local success
\* conn      the batch connection: "none" | "open" | "closed"
\* connects  number of psycopg2.connect calls made
\* execs     per statement: number of cur.execute calls
\* fails     per statement: number of attempts that raised psycopg2.Error
\* done      per statement: "pending" | "committed" | "skipped"
\* sleeps    the time.sleep(delay) calls made, in order
\* reports   number of "Could not connect to Redshift" error reports
RqIdle ==
    [pc |-> "idle", queries |-> << >>, retries |-> 0, delay |-> 0, idx |-> 0,
     attempt |-> 0, success |-> FALSE, conn |-> "none", connects |-> 0,
     execs |-> << >>, fails |-> << >>, done |-> << >>, sleeps |-> << >>,
     reports |-> 0]

\* entry of run_queries(queries, config, query_type, retries, delay)
RunQueriesEntry(queries, retries, delay) ==
    [pc |-> "connect", queries |-> queries, retries |-> retries, delay |-> delay,
     idx |-> 0, attempt |-> 0, success |-> FALSE, conn |-> "none", connects |-> 0,
     execs |-> [i \in 1..Len(queries) |-> 0],
     fails |-> [i \in 1..Len(queries) |-> 0],
     done |-> [i \in 1..Len(queries) |-> "pending"],
     sleeps |-> << >>, reports |-> 0]

\* pending   statements executed in the open transaction, not yet committed
\* applied   statements of this batch whose effect is committed in the warehouse
\* aborted   the open transaction is in the failed state: the server rejects
\*           every statement until the transaction is ended (autocommit is
\*           never set and conn.rollback() is never called in run_queries)
DbFresh == [pending |-> {}, applied |-> {}, aborted |-> FALSE]

\* except psycopg2.Error around the whole body: logs "Could not connect to
\* Redshift" and lets the function return
OuterHandlerReraises(r) == [r EXCEPT !.reports = @ + 1, !.pc = "raised"]
OuterHandler(r) == [r EXCEPT !.reports = @ + 1, !.pc = "returned"]

\* psycopg2.connect(...) returns the batch connection
RunQueriesConnectOk ==
    /\ rq.pc = "connect"
    /\ rq' = [rq EXCEPT !.connects = @ + 1, !.conn = "open", !.pc = "cursor"]
    /\ UNCHANGED <<tc, db, td, su, pk, m, wh, dumped>>

\* psycopg2.connect(...) raises psycopg2.Error: the outer handler logs it and
\* the function returns
RunQueriesConnectFail ==
    /\ rq.pc = "connect"
    /\ rq' = OuterHandler([rq EXCEPT !.connects = @ + 1])
    /\ UNCHANGED <<tc, db, td, su, pk, m, wh, dumped>>

\* cur = conn.cursor()
RunQueriesCursorOk ==
    /\ rq.pc = "cursor"
    /\ rq' = [rq EXCEPT !.idx = 1, !.pc = "for"]
    /\ UNCHANGED <<tc, db, td, su, pk, m, wh, dumped>>

\* conn.cursor() raises psycopg2.Error: caught by the outer handler, which
\* only logs; nothing closes the connection
RunQueriesCursorFail ==
    /\ rq.pc = "cursor"
    /\ rq' = OuterHandler(rq)
    /\ UNCHANGED <<tc, db, td, su, pk, m, wh, dumped>>

\* for query in queries: attempt = 1; success = False
ForBodyKeepsAttempt(r) == [r EXCEPT !.success = FALSE, !.pc = "while"]
ForBody(r) == [r EXCEPT !.attempt = 1, !.success = FALSE, !.pc = "while"]

RunQueriesForNext ==
    /\ rq.pc = "for"
    /\ rq.idx <= Len(rq.queries)
    /\ rq' = ForBody(rq)
    /\ UNCHANGED <<tc, db, td, su, pk, m, wh, dumped>>

\* while attempt <= retries and not success
RqLoopCondOffByOne(attempt, retries, success) == attempt < retries /\ ~success
RqLoopCondIgnoresSuccess(attempt, retries, success) == attempt <= retries
RqLoopCond(attempt, retries, success) == attempt <= retries /\ ~success

\* the while loop ends: the statement was committed or its attempts are used up
RunQueriesWhileExit ==
    /\ rq.pc = "while"
    /\ ~RqLoopCond(rq.attempt, rq.retries, rq.success)
    /\ rq' = [rq EXCEPT
                !.done[rq.idx] = IF rq.success THEN "committed" ELSE "skipped",
                !.idx = @ + 1,
                !.pc = "for"]
    /\ UNCHANGED <<tc, db, td, su, pk, m, wh, dumped>>

\* effect of conn.commit() on the warehouse
CommitDeferred(pending, applied) ==
    [pending |-> pending, applied |-> applied, aborted |-> FALSE]
Commit(pending, applied) ==
    [pending |-> {}, applied |-> applied \cup pending, aborted |-> FALSE]

\* cur.description is not None: the statement returns rows
HasRows(query) == query \in {"TOP_PLAYED_SONGS_QUERY", "USER_LEVEL_DISTRIBUTION_QUERY"}

\* the transaction after an attempt raised psycopg2.Error: an error raised by
\* the server leaves it failed and its uncommitted work is lost; an error
\* raised on the client side leaves it as it was.  The handler does nothing
\* to the connection.
AfterError(d, serverSide) ==
    IF serverSide THEN [d EXCEPT !.pending = {}, !.aborted = TRUE] ELSE d

\* the handler's test after attempt += 1: if attempt <= retries: sleep(delay)
RqSleepAlways(attempt, retries) == TRUE
RqSleepFollows(attempt, retries) == attempt <= retries

\* the except psycopg2.Error handler of one attempt (after the execute call)
RqHandler ==
    [rq EXCEPT
        !.execs[rq.idx] = @ + 1,
        !.fails[rq.idx] = @ + 1,
        !.attempt = @ + 1,
        !.sleeps = IF RqSleepFollows(rq.attempt + 1, rq.retries)
                      THEN Append(@, rq.delay) ELSE @]

\* success = True stands after conn.commit(): an error raised by fetchall or
\* by commit reaches the handler with success still False
OnFetchOrCommitErrorSuccessFirst ==
    [rq EXCEPT !.execs[rq.idx] = @ + 1, !.success = TRUE]
OnFetchOrCommitError == RqHandler

\* one attempt: execute, fetch the rows if any, commit; success = True
RunQueriesAttemptOk ==
    /\ rq.pc = "while"
    /\ RqLoopCond(rq.attempt, rq.retries, rq.success)
    /\ ~db.aborted
    /\ rq' = [rq EXCEPT !.execs[rq.idx] = @ + 1, !.success = TRUE]
    /\ db' = Commit(db.pending \cup {rq.idx}, db.applied)
    /\ UNCHANGED <<tc, td, su, pk, m, wh, dumped>>

\* one attempt whose cur.execute raises psycopg2.Error; in a failed
\* transaction every execute raises (InFailedSqlTransaction)
RunQueriesExecuteError ==
    /\ rq.pc = "while"
    /\ RqLoopCond(rq.attempt, rq.retries, rq.success)
    /\ rq' = RqHandler
    /\ \E serverSide \in BOOLEAN :
          /\ db.aborted => serverSide
          /\ db' = AfterError(db, serverSide)
    /\ UNCHANGED <<tc, td, su, pk, m, wh, dumped>>

\* one attempt whose execute succeeds and whose cur.fetchall() (a statement
\* with rows) or conn.commit() raises psycopg2.Error: the statement ran in
\* the open transaction and was not committed
RunQueriesFetchOrCommitError ==
    /\ rq.pc = "while"
    /\ RqLoopCond(rq.attempt, rq.retries, rq.success)
    /\ ~db.aborted
    /\ rq' = OnFetchOrCommitError
    /\ \E stage \in {"fetchall", "commit"}, serverSide \in BOOLEAN :
          /\ stage = "fetchall" => HasRows(rq.queries[rq.idx])
          /\ db' = AfterError([db EXCEPT !.pending = @ \cup {rq.idx}], serverSide)
    /\ UNCHANGED <<tc, td, su, pk, m, wh, dumped>>

\* one attempt during which cur.execute raises an exception that is not a
\* psycopg2.Error: no handler of run_queries catches it
RunQueriesOtherException ==
    /\ rq.pc = "while"
    /\ RqLoopCond(rq.attempt, rq.retries, rq.success)
    /\ rq' = [rq EXCEPT !.execs[rq.idx] = @ + 1, !.pc = "raised"]
    /\ UNCHANGED <<tc, db, td, su, pk, m, wh, dumped>>

\* after the for loop: cur.close(); conn.close(); return
RunQueriesClose ==
    /\ rq.pc = "for"
    /\ rq.idx > Len(rq.queries)
    /\ rq' = [rq EXCEPT !.conn = "closed", !.pc = "returned"]
    /\ db' = [db EXCEPT !.pending = {}]
    /\ UNCHANGED <<tc, td, su, pk, m, wh, dumped>>

(* ------------------------------ teardown ------------------------------- *)
\* pc        the control-plane call made next, or "idle" | "returned" | "raised"
\* steps     the steps entered, in order
\* ended     number of steps that have ended
\* calls     the control-plane calls issued, in order, each with its outcome
\* groups    matching security groups the delete loop has still to visit
\* warnings  number of steps that ended in their except handler
TdIdle ==
    [pc |-> "idle", steps |-> << >>, ended |-> 0, calls |-> << >>, groups |-> 0,
     warnings |-> 0]

\* the order of the calls in teardown()
TeardownOrderSwapped ==
    << "DeletePlacementGroup", "DeleteCluster", "DeleteAccessRole", "DeleteIngressRule" >>
TeardownOrder ==
    << "DeleteCluster", "DeletePlacementGroup", "DeleteAccessRole", "DeleteIngressRule" >>

\* the first control-plane call of each step function
FirstCall(step) ==
    CASE step = "DeleteCluster" -> "delete_cluster"
      [] step = "DeletePlacementGroup" -> "delete_cluster_subnet_group"
      [] step = "DeleteAccessRole" -> "detach_role_policy"
      [] step = "DeleteIngressRule" -> "describe_security_groups"

\* entry of teardown()
TeardownEntry == [TdIdle EXCEPT !.pc = FirstCall(TeardownOrder[1])]

\* where teardown() continues when the n-th step function has returned
AfterStep(n) ==
    IF n < Len(TeardownOrder) THEN FirstCall(TeardownOrder[n + 1]) ELSE "returned"

\* except Exception: the step logs two warnings and returns to teardown()
HandlerReraises(n) == "raised"
HandlerReturns(n) == AfterStep(n)

Call(name, ok) == [name |-> name, ok |-> ok]

\* a step function is entered (its first call is issued)
TdEnter(t, step) == [t EXCEPT !.steps = Append(@, step)]
\* a step function returns after its last call succeeded
TdEndOk(t) == [t EXCEPT !.ended = @ + 1, !.pc = AfterStep(t.ended + 1)]
\* a step function returns from its except handler
TdEndCaught(t) ==
    [t EXCEPT !.ended = @ + 1, !.warnings = @ + 1, !.pc = HandlerReturns(t.ended + 1)]

\* delete_redshift_cluster: redshift_client.delete_cluster(...)
DeleteClusterCall ==
    /\ td.pc = "delete_cluster"
    /\ \E ok \in BOOLEAN :
          LET t == [TdEnter(td, "DeleteCluster") EXCEPT
                       !.calls = Append(@, Call("delete_cluster", ok))]
          IN  td' = IF ok THEN [t EXCEPT !.pc = "wait_cluster_deleted"]
                          ELSE TdEndCaught(t)
    /\ UNCHANGED <<tc, rq, db, su, pk, m, wh, dumped>>

\* delete_redshift_cluster: waiter.wait(...) for "cluster_deleted"
DeleteClusterWait ==
    /\ td.pc = "wait_cluster_deleted"
    /\ \E ok \in BOOLEAN :
          LET t == [td EXCEPT !.calls = Append(@, Call("wait_cluster_deleted", ok))]
          IN  td' = IF ok THEN TdEndOk(t) ELSE TdEndCaught(t)
    /\ UNCHANGED <<tc, rq, db, su, pk, m, wh, dumped>>

\* delete_subnet_group
DeleteSubnetGroup ==
    /\ td.pc = "delete_cluster_subnet_group"
    /\ \E ok \in BOOLEAN :
          LET t == [TdEnter(td, "DeletePlacementGroup") EXCEPT
                       !.calls = Append(@, Call("delete_cluster_subnet_group", ok))]
          IN  td' = IF ok THEN TdEndOk(t) ELSE TdEndCaught(t)
    /\ UNCHANGED <<tc, rq, db, su, pk, m, wh, dumped>>

\* delete_iam_role: iam_client.detach_role_policy(...)
DeleteIamRoleDetach ==
    /\ td.pc = "detach_role_policy"
    /\ \E ok \in BOOLEAN :
          LET t == [TdEnter(td, "DeleteAccessRole") EXCEPT
                       !.calls = Append(@, Call("detach_role_policy", ok))]
          IN  td' = IF ok THEN [t EXCEPT !.pc = "delete_role"] ELSE TdEndCaught(t)
    /\ UNCHANGED <<tc, rq, db, su, pk, m, wh, dumped>>

\* delete_iam_role: iam_client.delete_role(...)
DeleteIamRoleDelete ==
    /\ td.pc = "delete_role"
    /\ \E ok \in BOOLEAN :
          LET t == [td EXCEPT !.calls = Append(@, Call("delete_role", ok))]
          IN  td' = IF ok THEN TdEndOk(t) ELSE TdEndCaught(t)
    /\ UNCHANGED <<tc, rq, db, su, pk, m, wh, dumped>>

\* delete_security_group: ec2_client.describe_security_groups(...) finds n groups
DeleteSecurityGroupDescribe ==
    /\ td.pc = "describe_security_groups"
    /\ \E ok \in BOOLEAN, n \in 0..MaxGroups :
          LET t == [TdEnter(td, "DeleteIngressRule") EXCEPT
                       !.calls = Append(@, Call("describe_security_groups", ok))]
          IN  td' = IF ~ok THEN TdEndCaught(t)
                    ELSE IF n = 0 THEN TdEndOk(t)
                    ELSE [t EXCEPT !.groups = n, !.pc = "delete_security_group"]
    /\ UNCHANGED <<tc, rq, db, su, pk, m, wh, dumped>>

\* delete_security_group: one iteration of the loop over the groups found
DeleteSecurityGroupDelete ==
    /\ td.pc = "delete_security_group"
    /\ \E ok \in BOOLEAN :
          LET t == [td EXCEPT !.calls = Append(@, Call("delete_security_group", ok)),
                              !.groups = @ - 1]
          IN  td' = IF ~ok THEN TdEndCaught(t)
                    ELSE IF t.groups = 0 THEN TdEndOk(t)
                    ELSE t
    /\ UNCHANGED <<tc, rq, db, su, pk, m, wh, dumped>>

(* -------------------------------- setup -------------------------------- *)
\* the values of CLUSTER.PORT in dwh.cfg drawn for setup
Ports == {5439, 5440}
\* models.py: redshift_port: int = 5439
DefaultRedshiftPort == 5439

\* pc           the call made next, or "idle" | "assemble" | "returned" | "raised"
\* calls        the calls issued (control plane and settle delay), in order
\* port         PORT, read from dwh.cfg
\* ingressPort  FromPort/ToPort given to authorize_security_group_ingress (0: none)
\* clusterPort  Port given to create_cluster (0: none)
\* error        the exception that left setup(), or "none"
\* result       << the tuple setup() returned >>, or << >>
\* noDefault    describe_security_groups found no group named "default"
SuIdle ==
    [pc |-> "idle", calls |-> << >>, port |-> 0, ingressPort |-> 0,
     clusterPort |-> 0, error |-> "none", result |-> << >>, noDefault |-> FALSE]

\* the calls of setup(), in program order: create_iam_role,
\* create_security_group, create_subnet_group, time.sleep(15),
\* launch_redshift_cluster
SetupCallsWithoutWait ==
    << "create_role", "attach_role_policy",
       "describe_vpcs", "create_security_group", "authorize_security_group_ingress",
       "describe_subnets", "create_cluster_subnet_group", "describe_cluster_subnet_groups",
       "sleep",
       "describe_security_groups", "create_cluster", "describe_clusters" >>
SetupCalls ==
    << "create_role", "attach_role_policy",
       "describe_vpcs", "create_security_group", "authorize_security_group_ingress",
       "describe_subnets", "create_cluster_subnet_group", "describe_cluster_subnet_groups",
       "sleep",
       "describe_security_groups", "create_cluster", "wait_cluster_available",
       "describe_clusters" >>

\* entry of setup() with PORT = port
SetupEntry(port) == [SuIdle EXCEPT !.pc = SetupCalls[1], !.port = port]

IndexOfCall(call) == CHOOSE i \in 1..Len(SetupCalls) : SetupCalls[i] = call

\* the call that follows a call that returned
NextCall(call) ==
    IF IndexOfCall(call) < Len(SetupCalls)
       THEN SetupCalls[IndexOfCall(call) + 1] ELSE "assemble"

\* no try/except in setup.py: an exception raised by a call leaves setup()
OnErrorContinue(call) == NextCall(call)
OnError(call) == "raised"

\* a call returns
SuOk(s) == [s EXCEPT !.calls = Append(@, s.pc), !.pc = NextCall(s.pc)]
\* a call raises, or its answer makes the code raise
SuFail(s, error) ==
    [s EXCEPT !.calls = Append(@, s.pc), !.pc = OnError(s.pc), !.error = error]

\* create_iam_role: create_role, attach_role_policy
CreateIamRole ==
    /\ su.pc \in {"create_role", "attach_role_policy"}
    /\ \E ok \in BOOLEAN :
          su' = IF ok THEN SuOk(su) ELSE SuFail(su, "ClientError")
    /\ UNCHANGED <<tc, rq, db, td, pk, m, wh, dumped>>

\* create_security_group: describe_vpcs (response["Vpcs"][0] raises IndexError
\* on an empty answer), create_security_group, authorize_security_group_ingress
CreateSecurityGroup ==
    /\ su.pc \in {"describe_vpcs", "create_security_group",
                  "authorize_security_group_ingress"}
    /\ \E answer \in {"ok", "error", "empty"} :
          /\ answer = "empty" => su.pc = "describe_vpcs"
          /\ su' = IF answer = "error" THEN SuFail(su, "ClientError")
                   ELSE IF answer = "empty" THEN SuFail(su, "IndexError")
                   ELSE IF su.pc = "authorize_security_group_ingress"
                        THEN [SuOk(su) EXCEPT !.ingressPort = su.port]
                   ELSE SuOk(su)
    /\ UNCHANGED <<tc, rq, db, td, pk, m, wh, dumped>>

\* create_subnet_group: describe_subnets, create_cluster_subnet_group,
\* describe_cluster_subnet_groups
CreateSubnetGroup ==
    /\ su.pc \in {"describe_subnets", "create_cluster_subnet_group",
                  "describe_cluster_subnet_groups"}
    /\ \E ok \in BOOLEAN :
          su' = IF ok THEN SuOk(su) ELSE SuFail(su, "ClientError")
    /\ UNCHANGED <<tc, rq, db, td, pk, m, wh, dumped>>

\* time.sleep(15)
SettleDelay ==
    /\ su.pc = "sleep"
    /\ su' = SuOk(su)
    /\ UNCHANGED <<tc, rq, db, td, pk, m, wh, dumped>>

\* if not response["SecurityGroups"]: raise ResourceWarning(...)
OnNoDefaultGroupGoesOn(s) == SuOk(s)
OnNoDefaultGroup(s) == SuFail(s, "ResourceWarning")

\* launch_redshift_cluster: describe_security_groups (ResourceWarning when no
\* default group is found), create_cluster, waiter.wait, describe_clusters
LaunchRedshiftCluster ==
    /\ su.pc \in {"describe_security_groups", "create_cluster",
                  "wait_cluster_available", "describe_clusters"}
    /\ \E answer \in {"ok", "error", "empty"} :
          /\ answer = "empty" => su.pc = "describe_security_groups"
          /\ su' = IF answer = "error" THEN SuFail(su, "ClientError")
                   ELSE IF answer = "empty"
                        THEN OnNoDefaultGroup([su EXCEPT !.noDefault = TRUE])
                   ELSE IF su.pc = "create_cluster"
                        THEN [SuOk(su) EXCEPT !.clusterPort = su.port]
                   ELSE SuOk(su)
    /\ UNCHANGED <<tc, rq, db, td, pk, m, wh, dumped>>

\* RedshiftConfig(username, password, redshift_endpoint, db_name): the port
\* argument is not given and takes the dataclass default
RedshiftConfig(username, password, endpoint, dbName) ==
    [username |-> username, password |-> password, redshift_endpoint |-> endpoint,
     db_name |-> dbName, redshift_port |-> DefaultRedshiftPort]

\* return (RedshiftConfig(...), role_arn, REGION)
SetupReturn ==
    /\ su.pc = "assemble"
    /\ su' = [su EXCEPT
                !.result = << [config |-> RedshiftConfig("MASTER_USERNAME", "MASTER_PASSWORD",
                                                         "endpoint", "DB_NAME"),
                               role_arn |-> "role_arn", region |-> "REGION"] >>,
                !.pc = "returned"]
    /\ UNCHANGED <<tc, rq, db, td, pk, m, wh, dumped>>

(* --------------------------- __main__.py ------------------------------- *)
\* test_connection(redshift_config, retries=10, delay=5)
EtlProbeRetries == 10
EtlProbeDelay == 5
\* run_queries(..., retries: int = 3, delay: int = 5)
DefaultRetries == 3
DefaultDelay == 5

\* pc       "shell" (no command running) | "setup" | "etl_probe" | "etl_batch"
\*          | "sample" | "teardown"
\* cmd      the command of the last invocation of main
\* exit     how it ended: "none" (running) | "ok" | "exit1" | "exception"
\* probed   test_connection has returned normally in this command
\* batches  the labels of the run_queries calls of this command, in order
\* dumps    number of pickle.dump calls of this command
\* loaded   << the tuple load_pickled_setup returned to this command >>, or << >>
MIdle == [pc |-> "shell", cmd |-> "none", exit |-> "none", probed |-> FALSE,
          batches |-> << >>, dumps |-> 0, loaded |-> << >>]
MStart(cmd, pc) == [MIdle EXCEPT !.pc = pc, !.cmd = cmd]
\* the process ends: its exit status and output stay, its objects are gone
MEnd(exit) == [m EXCEPT !.pc = "shell", !.exit = exit]
ProcessEnds ==
    tc' = TcIdle /\ rq' = RqIdle /\ db' = DbFresh /\ td' = TdIdle /\ su' = SuIdle

\* pickle_path.exists() is false
NoFile == << >>

\* a session record left by an earlier provisioning
StoredRecord ==
    [config |-> RedshiftConfig("MASTER_USERNAME", "MASTER_PASSWORD", "endpoint", "DB_NAME"),
     role_arn |-> "role_arn", region |-> "REGION"]

\* the attributes of a RedshiftConfig instance, in the order of its __dict__
ConfigAttributes ==
    << "username", "password", "redshift_endpoint", "db_name", "redshift_port" >>
\* the attributes whose value is an int; the others hold a str
IntAttributes == {"redshift_port"}

\* one opcode of the pickle stream, with its argument if it has one
Op(op, arg) == [op |-> op, arg |-> << arg >>]
Op0(op) == [op |-> op, arg |-> << >>]

\* Pickler.save of a str or an int
SaveValue(name, value) ==
    IF name \in IntAttributes THEN Op("BININT2", value)
                              ELSE Op("SHORT_BINUNICODE", value)
\* the items of obj.__dict__ as key, value, key, value, ...
RECURSIVE SaveItems(_, _)
SaveItems(obj, names) ==
    IF names = << >> THEN << >>
    ELSE << Op("SHORT_BINUNICODE", Head(names)), SaveValue(Head(names), obj[Head(names)]) >>
         \o SaveItems(obj, Tail(names))
\* Pickler.save of a RedshiftConfig instance (object.__reduce_ex__(4)): the
\* class, cls.__new__(cls), then obj.__dict__ as the state
SaveObject(obj) ==
    << Op("SHORT_BINUNICODE", "app.models"), Op("SHORT_BINUNICODE", "RedshiftConfig"),
       Op0("STACK_GLOBAL"), Op0("EMPTY_TUPLE"), Op0("NEWOBJ"),
       Op0("EMPTY_DICT"), Op0("MARK") >>
    \o SaveItems(obj, ConfigAttributes)
    \o << Op0("SETITEMS"), Op0("BUILD") >>

\* pickle.dump((redshift_config, role_arn, region), file): the opcode stream
\* written to the file (protocol 4; the PROTO, FRAME and MEMOIZE opcodes,
\* which push and pop nothing, are left out)
PickleDump(t) ==
    SaveObject(t.config)
    \o << Op("SHORT_BINUNICODE", t.role_arn), Op("SHORT_BINUNICODE", t.region),
          Op0("TUPLE3"), Op0("STOP") >>

\* the objects on the unpickler's stack
Mark == [tag |-> "mark"]
Atom(v) == [tag |-> "atom", v |-> v]
Class(module, name) == [tag |-> "class", module |-> module, name |-> name]
Tuple(items) == [tag |-> "tuple", items |-> items]
Dict(d) == [tag |-> "dict", d |-> d]
Instance(cls, d) == [tag |-> "instance", cls |-> cls, d |-> d]
EmptyDict == [name \in {} |-> 0]

Top(stack) == stack[Len(stack)]
Pop(stack, n) == SubSeq(stack, 1, Len(stack) - n)
\* position of the topmost MARK
TopMark(stack) ==
    CHOOSE i \in 1..Len(stack) :
        /\ stack[i].tag = "mark"
        /\ \A j \in (i + 1)..Len(stack) : stack[j].tag # "mark"

\* dict[key] = value for the pairs key, value, key, value, ... in order
RECURSIVE SetItems(_, _)
SetItems(d, items) ==
    IF items = << >> THEN d
    ELSE SetItems((items[1].v :> items[2].v) @@ d, SubSeq(items, 3, Len(items)))

\* Unpickler: the effect of one opcode on the stack
LoadOp(o, stack) ==
    CASE o.op \in {"SHORT_BINUNICODE", "BININT2"} -> Append(stack, Atom(o.arg[1]))
      [] o.op = "STACK_GLOBAL" ->
            Append(Pop(stack, 2), Class(stack[Len(stack) - 1].v, Top(stack).v))
      [] o.op = "EMPTY_TUPLE" -> Append(stack, Tuple(<< >>))
      \* cls.__new__(cls, *args): __init__ is not called
      [] o.op = "NEWOBJ" ->
            Append(Pop(stack, 2), Instance(stack[Len(stack) - 1], EmptyDict))
      [] o.op = "EMPTY_DICT" -> Append(stack, Dict(EmptyDict))
      [] o.op = "MARK" -> Append(stack, Mark)
      [] o.op = "SETITEMS" ->
            LET k == TopMark(stack)
            IN  Append(Pop(stack, Len(stack) - k + 2),
                       Dict(SetItems(stack[k - 1].d, SubSeq(stack, k + 1, Len(stack)))))
      \* inst.__dict__.update(state)
      [] o.op = "BUILD" ->
            LET inst == stack[Len(stack) - 1]
            IN  Append(Pop(stack, 2), Instance(inst.cls, Top(stack).d @@ inst.d))
      [] o.op = "TUPLE3" ->
            Append(Pop(stack, 3), Tuple(SubSeq(stack, Len(stack) - 2, Len(stack))))

\* pickle.load(file): the opcodes are run in order; STOP returns the top
RECURSIVE Unpickle(_, _)
Unpickle(f, stack) ==
    IF Head(f).op = "STOP" THEN Top(stack) ELSE Unpickle(Tail(f), LoadOp(Head(f), stack))

\* redshift_config, role_arn, region = pickle.load(file); a RedshiftConfig
\* instance is the record of its attributes
UnpackArnLast(loaded) ==
    [config |-> loaded.items[1].d, role_arn |-> loaded.items[3].v,
     region |-> loaded.items[2].v]
Unpack(loaded) ==
    [config |-> loaded.items[1].d, role_arn |-> loaded.items[2].v,
     region |-> loaded.items[3].v]

\* load_pickled_setup()
PickleLoad(f) == Unpack(Unpickle(f, << >>))

\* run_teardown: if pickle_path.exists(): pickle_path.unlink()
UnlinkNever(file) == file
UnlinkIfExists(file) == IF file # NoFile THEN NoFile ELSE file

\* the batches of setup_redshift_tables: create_tables (DROP, CREATE),
\* copy_to_tables, insert_into_tables
EtlBatches ==
    << [label |-> "DROP", queries |-> DROP_TABLE_STATEMENTS],
       [label |-> "CREATE", queries |-> CREATE_TABLE_STATEMENTS],
       [label |-> "COPY", queries |-> COPY_STATEMENTS],
       [label |-> "INSERT", queries |-> INSERT_STATEMENTS] >>

\* main --setup: run_and_pickle_setup() calls setup()
MainSetup ==
    /\ m.pc = "shell"
    /\ m' = MStart("setup", "setup")
    /\ \E port \in Ports : su' = SetupEntry(port)
    /\ UNCHANGED <<tc, rq, db, td, pk, wh, dumped>>

\* run_and_pickle_setup: setup() returned, the tuple is pickled to the file
RunAndPickleSetupDump ==
    /\ m.pc = "setup"
    /\ su.pc = "returned"
    /\ pk' = << PickleDump(su.result[1]) >>
    /\ dumped' = << su.result[1] >>
    /\ m' = [MEnd("ok") EXCEPT !.dumps = @ + 1]
    /\ ProcessEnds
    /\ UNCHANGED wh

\* an exception raised by setup(), test_connection or run_queries is caught
\* nowhere in __main__.py: the command ends with a traceback
MainPropagate ==
    /\ \/ m.pc = "setup" /\ su.pc = "raised"
       \/ m.pc = "etl_probe" /\ tc.pc = "raised"
       \/ m.pc \in {"etl_batch", "sample"} /\ rq.pc = "raised"
    /\ m' = MEnd("exception")
    /\ ProcessEnds
    /\ UNCHANGED <<pk, wh, dumped>>

\* main --etl or --sample while the pickle file does not exist: sys.exit(1)
MainMissingRecord ==
    /\ m.pc = "shell"
    /\ pk = NoFile
    /\ \E cmd \in {"etl", "sample"} : m' = [MStart(cmd, "shell") EXCEPT !.exit = "exit1"]
    /\ UNCHANGED <<tc, rq, db, td, su, pk, wh, dumped>>

\* main --etl: setup_redshift_tables() loads the record and probes the warehouse
MainEtl ==
    /\ m.pc = "shell"
    /\ pk # NoFile
    /\ m' = [MStart("etl", "etl_probe") EXCEPT !.loaded = << PickleLoad(pk[1]) >>]
    /\ \E failsFirst \in 0..EtlProbeRetries :
          tc' = TestConnectionEntry(EtlProbeRetries, EtlProbeDelay, failsFirst)
    /\ UNCHANGED <<rq, db, td, su, pk, wh, dumped>>

\* setup_redshift_tables: test_connection returned (its frame is gone),
\* create_tables starts the first batch
EtlFirstBatch ==
    /\ m.pc = "etl_probe"
    /\ tc.pc = "returned"
    /\ m' = [m EXCEPT !.pc = "etl_batch", !.probed = TRUE,
                      !.batches = << EtlBatches[1].label >>]
    /\ rq' = RunQueriesEntry(EtlBatches[1].queries, DefaultRetries, DefaultDelay)
    /\ db' = DbFresh
    /\ tc' = TcIdle
    /\ UNCHANGED <<td, su, pk, wh, dumped>>

\* setup_redshift_tables: a run_queries call returned and the next batch starts
EtlNextBatch ==
    /\ m.pc = "etl_batch"
    /\ rq.pc = "returned"
    /\ Len(m.batches) < Len(EtlBatches)
    /\ LET next == EtlBatches[Len(m.batches) + 1]
       IN  /\ m' = [m EXCEPT !.batches = Append(@, next.label)]
           /\ rq' = RunQueriesEntry(next.queries, DefaultRetries, DefaultDelay)
    /\ db' = DbFresh
    /\ UNCHANGED <<tc, td, su, pk, wh, dumped>>

\* setup_redshift_tables: the last batch returned
EtlDone ==
    /\ m.pc = "etl_batch"
    /\ rq.pc = "returned"
    /\ Len(m.batches) = Len(EtlBatches)
    /\ m' = MEnd("ok")
    /\ ProcessEnds
    /\ UNCHANGED <<pk, wh, dumped>>

\* main --sample: run_sample_queries() loads the record and runs SAMPLE_QUERIES
MainSample ==
    /\ m.pc = "shell"
    /\ pk # NoFile
    /\ m' = [MStart("sample", "sample") EXCEPT !.batches = << "ANALYTICS" >>,
                                             !.loaded = << PickleLoad(pk[1]) >>]
    /\ rq' = RunQueriesEntry(SAMPLE_QUERIES, DefaultRetries, DefaultDelay)
    /\ db' = DbFresh
    /\ UNCHANGED <<tc, td, su, pk, wh, dumped>>

\* run_sample_queries: run_queries returned
SampleDone ==
    /\ m.pc = "sample"
    /\ rq.pc = "returned"
    /\ m' = MEnd("ok")
    /\ ProcessEnds
    /\ UNCHANGED <<pk, wh, dumped>>

\* main --teardown: run_teardown() calls teardown()
MainTeardown ==
    /\ m.pc = "shell"
    /\ m' = MStart("teardown", "teardown")
    /\ td' = TeardownEntry
    /\ UNCHANGED <<tc, rq, db, su, pk, wh, dumped>>

\* run_teardown: teardown() returned; the pickle file is unlinked if it exists
RunTeardownUnlink ==
    /\ m.pc = "teardown"
    /\ td.pc = "returned"
    /\ pk' = UnlinkIfExists(pk)
    /\ m' = MEnd("ok")
    /\ ProcessEnds
    /\ UNCHANGED <<wh, dumped>>


(* ------------------------------ warehouse ------------------------------ *)
\* The statements of sql_queries.py, applied to the tables they name.  A
\* table holds a bag of rows; a row keeps the columns the joins and filters
\* of the INSERT statements read.  A column value is << >> (NULL) or << v >>.
Tables ==
    {"songplays", "users", "songs", "artists", "time",
     "staging_songs", "staging_events", "staging_logs"}
Null == << >>

Absent == [exists |-> FALSE, rows |-> EmptyBag]
Empty == [exists |-> TRUE, rows |-> EmptyBag]

\* the rows drawn for s3://udacity-dend/log_data: a song play, an event
\* without a song, a play of a song unknown to song_data, a play without a user
LogRows ==
    { [artist |-> <<"Y">>, song |-> <<"X">>, userId |-> <<42>>, ts |-> <<1000>>],
      [artist |-> Null, song |-> Null, userId |-> <<42>>, ts |-> <<2000>>],
      [artist |-> <<"W">>, song |-> <<"Z">>, userId |-> <<7>>, ts |-> <<3000>>],
      [artist |-> <<"Y">>, song |-> <<"X">>, userId |-> Null, ts |-> <<4000>>] }
\* the rows drawn for s3://udacity-dend/song_data
SongRows ==
    { [title |-> <<"X">>, artist_name |-> <<"Y">>, song_id |-> <<"S1">>,
       artist_id |-> <<"A1">>],
      [title |-> <<"X">>, artist_name |-> <<"V">>, song_id |-> <<"S2">>,
       artist_id |-> <<"A2">>] }

\* the outcome of one statement
Done(t) == [tables |-> t, error |-> FALSE]
Failed(t) == [tables |-> t, error |-> TRUE]

\* the table named by each statement
DropTarget(stmt) ==
    CASE stmt = "DROP_SONGPLAYS_TABLE" -> "songplays"
      [] stmt = "DROP_USERS_TABLE" -> "users"
      [] stmt = "DROP_SONGS_TABLE" -> "songs"
      [] stmt = "DROP_ARTISTS_TABLE" -> "artists"
      [] stmt = "DROP_TIME_TABLE" -> "time"
      [] stmt = "DROP_STAGING_SONGS_TABLE" -> "staging_songs"
      [] stmt = "DROP_STAGING_EVENTS_TABLE" -> "staging_events"
CreateTarget(stmt) ==
    CASE stmt = "CREATE_STAGING_EVENTS_TABLE" -> "staging_logs"
      [] stmt = "CREATE_STAGING_SONGS_TABLE" -> "staging_songs"
      [] stmt = "CREATE_SONGPLAYS_TABLE" -> "songplays"
      [] stmt = "CREATE_ARTISTS_TABLE" -> "artists"
      [] stmt = "CREATE_SONGS_TABLE" -> "songs"
      [] stmt = "CREATE_TIME_TABLE" -> "time"
      [] stmt = "CREATE_USERS_TABLE" -> "users"
CopyTarget(stmt) ==
    CASE stmt = "COPY_STAGING_SONGS" -> "staging_songs"
      [] stmt = "COPY_STAGING_LOGS" -> "staging_logs"

\* DROP TABLE IF EXISTS name;
DropTableStrict(t, name) ==
    IF t[name].exists THEN Done([t EXCEPT ![name] = Absent]) ELSE Failed(t)
DropTableIfExists(t, name) == Done([t EXCEPT ![name] = Absent])

\* CREATE TABLE IF NOT EXISTS name (...);
CreateTableIfNotExists(t, name) ==
    Done(IF t[name].exists THEN t ELSE [t EXCEPT ![name] = Empty])

\* COPY name FROM 's3://...': the rows of the bucket are appended
Copy(t, name, data) ==
    IF t[name].exists
       THEN Done([t EXCEPT ![name].rows = @ (+) SetToBag(data)])
       ELSE Failed(t)

\* the bag holding n copies of row
Copies(row, n) == [r \in {row} |-> n]
\* the sum of the bags S[x].bag
RECURSIVE BagSum(_)
BagSum(S) ==
    IF S = {} THEN EmptyBag
    ELSE LET x == CHOOSE x \in S : TRUE IN x.bag (+) BagSum(S \ {x})

\* TIMESTAMP 'epoch' + (se.ts / 1000) * INTERVAL '1 second', in seconds
StartTime(ts) == IF ts = Null THEN Null ELSE << ts[1] \div 1000 >>

\* ON se.song = ss.title AND se.artist = ss.artist_name (NULL equals nothing)
JoinCondition(se, ss) ==
    /\ se.song # Null /\ se.song = ss.title
    /\ se.artist # Null /\ se.artist = ss.artist_name

\* the SELECT of INSERT_SONGPLAYS_TABLE
SongplayRow(se, songId, artistId) ==
    [start_time |-> StartTime(se.ts), user_id |-> se.userId,
     song_id |-> songId, artist_id |-> artistId]
SelectSongplays(logs, songs) ==
    LET kept == {se \in BagToSet(logs) : se.artist # Null}
        matches(se) == {ss \in BagToSet(songs) : JoinCondition(se, ss)}
        joined == {[se |-> se, ss |-> ss,
                    bag |-> Copies(SongplayRow(se, ss.song_id, ss.artist_id),
                                   logs[se] * songs[ss])] :
                       se \in kept, ss \in BagToSet(songs)}
        matched == {x \in joined : JoinCondition(x.se, x.ss)}
        unmatched == {[se |-> se, ss |-> Null,
                       bag |-> Copies(SongplayRow(se, Null, Null), logs[se])] :
                         se \in {k \in kept : matches(k) = {}}}
    IN  BagSum(matched) (+) BagSum(unmatched)

\* start_time TIMESTAMP NOT NULL, user_id INT NOT NULL
SongplaysNotNull(rows) ==
    \A r \in BagToSet(rows) : r.start_time # Null /\ r.user_id # Null

\* the SELECT DISTINCT of the four dimension INSERT statements
SelectUsers(logs) ==
    SetToBag({[user_id |-> se.userId] : se \in {l \in BagToSet(logs) : l.userId # Null}})
SelectSongs(songs) ==
    SetToBag({[song_id |-> ss.song_id, title |-> ss.title, artist_id |-> ss.artist_id] :
                 ss \in {x \in BagToSet(songs) : x.song_id # Null}})
SelectArtists(songs) ==
    SetToBag({[artist_id |-> ss.artist_id, name |-> ss.artist_name] :
                 ss \in {x \in BagToSet(songs) : x.artist_id # Null}})
SelectTime(logs) ==
    SetToBag({[start_time |-> StartTime(se.ts)] :
                 se \in {l \in BagToSet(logs) : l.artist # Null}})

\* INSERT INTO target (...) SELECT ... : fails when a table it names is missing
\* or a NOT NULL column would receive NULL
InsertInto(t, target, sources, rows, accepted) ==
    IF t[target].exists /\ (\A src \in sources : t[src].exists) /\ accepted
       THEN Done([t EXCEPT ![target].rows = @ (+) rows])
       ELSE Failed(t)

\* the warehouse's answer to one statement
Execute(stmt, t, s3) ==
    LET logs == t["staging_logs"].rows
        songs == t["staging_songs"].rows
    IN  CASE stmt \in {DROP_TABLE_STATEMENTS[i] : i \in 1..Len(DROP_TABLE_STATEMENTS)}
               -> DropTableIfExists(t, DropTarget(stmt))
          [] stmt \in {CREATE_TABLE_STATEMENTS[i] : i \in 1..Len(CREATE_TABLE_STATEMENTS)}
               -> CreateTableIfNotExists(t, CreateTarget(stmt))
          [] stmt = "COPY_STAGING_SONGS" -> Copy(t, CopyTarget(stmt), s3.songs)
          [] stmt = "COPY_STAGING_LOGS" -> Copy(t, CopyTarget(stmt), s3.logs)
          [] stmt = "INSERT_USERS_TABLE"
               -> InsertInto(t, "users", {"staging_logs"}, SelectUsers(logs), TRUE)
          [] stmt = "INSERT_SONGS_TABLE"
               -> InsertInto(t, "songs", {"staging_songs"}, SelectSongs(songs), TRUE)
          [] stmt = "INSERT_ARTISTS_TABLE"
               -> InsertInto(t, "artists", {"staging_songs"}, SelectArtists(songs), TRUE)
          [] stmt = "INSERT_TIME_TABLE"
               -> InsertInto(t, "time", {"staging_logs"}, SelectTime(logs), TRUE)
          [] stmt = "INSERT_SONGPLAYS_TABLE"
               -> InsertInto(t, "songplays", {"staging_logs", "staging_songs"},
                             SelectSongplays(logs, songs),
                             SongplaysNotNull(SelectSongplays(logs, songs)))

\* pc       "idle" | "between" (no batch running) | "batch"
\* tables   the tables of the warehouse
\* s3       the rows of the two S3 prefixes the COPY statements read
\* next     position in EtlBatches of the batch --etl runs next
\* left     run_queries calls still to come
\* idx      position of the running batch in its statement list
\* failed   the statements of the running (or last) batch that were skipped
\* aborted  a statement of the running batch failed: the transaction is failed
\* before   the tables when the running (or last) batch started
\* last     label of the running (or last) batch that got a connection
\* prev     label of the batch that got a connection before it
WhIdle == [pc |-> "idle"]
WarehouseEntry(tables, s3, left) ==
    [pc |-> "between", tables |-> tables, s3 |-> s3, next |-> 1, left |-> left,
     idx |-> 0, failed |-> << >>, aborted |-> FALSE, before |-> tables,
     last |-> "none", prev |-> "none"]

\* the batch --etl runs after batch n; after the last one, the first batch
\* of the next --etl command
BatchAfter(n) == IF n < Len(EtlBatches) THEN n + 1 ELSE 1

\* run_queries(batch): the connection is opened
WarehouseBatchStart ==
    /\ wh.pc = "between"
    /\ wh.left > 0
    /\ wh' = [wh EXCEPT !.pc = "batch", !.left = @ - 1, !.idx = 1,
                        !.failed = << >>, !.aborted = FALSE,
                        !.before = wh.tables,
                        !.prev = wh.last, !.last = EtlBatches[wh.next].label]
    /\ UNCHANGED <<tc, rq, db, td, su, pk, m, dumped>>

\* run_queries(batch): the connection cannot be opened, no statement is sent
WarehouseBatchAbandoned ==
    /\ wh.pc = "between"
    /\ wh.left > 0
    /\ wh' = [wh EXCEPT !.left = @ - 1, !.next = BatchAfter(@)]
    /\ UNCHANGED <<tc, rq, db, td, su, pk, m, dumped>>

\* run_queries(batch): one statement of the batch; the warehouse's answer is
\* the same on each of its attempts, so a statement that fails is skipped,
\* and the statements after it meet a failed transaction
WarehouseStatement ==
    /\ wh.pc = "batch"
    /\ wh.idx <= Len(EtlBatches[wh.next].queries)
    /\ LET stmt == EtlBatches[wh.next].queries[wh.idx]
           r == IF wh.aborted THEN Failed(wh.tables)
                              ELSE Execute(stmt, wh.tables, wh.s3)
       IN  wh' = [wh EXCEPT !.tables = r.tables,
                            !.failed = IF r.error THEN Append(@, stmt) ELSE @,
                            !.aborted = @ \/ r.error,
                            !.idx = @ + 1]
    /\ UNCHANGED <<tc, rq, db, td, su, pk, m, dumped>>

\* run_queries(batch): the statements are used up, the connection is closed
WarehouseBatchEnd ==
    /\ wh.pc = "batch"
    /\ wh.idx > Len(EtlBatches[wh.next].queries)
    /\ wh' = [wh EXCEPT !.pc = "between", !.next = BatchAfter(@)]
    /\ UNCHANGED <<tc, rq, db, td, su, pk, m, dumped>>

(* --------------------------- specifications ---------------------------- *)
\* test_connection called with every retries in 0..MaxRetries against every target
InitProber ==
    /\ \E retries \in 0..MaxRetries, delay \in Delays, failsFirst \in 0..MaxFails :
          tc = TestConnectionEntry(retries, delay, failsFirst)
    /\ rq = RqIdle /\ db = DbFresh /\ td = TdIdle /\ su = SuIdle
    /\ pk = NoFile /\ dumped = << >> /\ m = MIdle /\ wh = WhIdle
NextProber ==
    \/ TestConnectionFallThrough
    \/ TestConnectionAttemptOk
    \/ TestConnectionAttemptFail
SpecProber == InitProber /\ [][NextProber]_vars

\* the batches drawn for run_queries: statements without and with a result set
StmtPool == {"DROP_SONGPLAYS_TABLE", "TOP_PLAYED_SONGS_QUERY"}
Batches == UNION {[1..n -> StmtPool] : n \in 0..MaxBatch}

\* run_queries called with every batch, retries in 0..MaxRetries
InitExecutor ==
    /\ \E queries \in Batches, retries \in 0..MaxRetries, delay \in Delays :
          rq = RunQueriesEntry(queries, retries, delay)
    /\ tc = TcIdle /\ db = DbFresh /\ td = TdIdle /\ su = SuIdle
    /\ pk = NoFile /\ dumped = << >> /\ m = MIdle /\ wh = WhIdle
NextExecutor ==
    \/ RunQueriesConnectOk
    \/ RunQueriesConnectFail
    \/ RunQueriesCursorOk
    \/ RunQueriesCursorFail
    \/ RunQueriesForNext
    \/ RunQueriesWhileExit
    \/ RunQueriesAttemptOk
    \/ RunQueriesExecuteError
    \/ RunQueriesFetchOrCommitError
    \/ RunQueriesOtherException
    \/ RunQueriesClose
SpecExecutor == InitExecutor /\ [][NextExecutor]_vars

\* the two retry loops: test_connection or run_queries called, with every
\* retries in 0..MaxRetries
InitRetry == InitProber \/ InitExecutor
NextRetry ==
    \/ TestConnectionFallThrough
    \/ TestConnectionAttemptOk
    \/ TestConnectionAttemptFail
    \/ RunQueriesConnectOk
    \/ RunQueriesConnectFail
    \/ RunQueriesCursorOk
    \/ RunQueriesCursorFail
    \/ RunQueriesForNext
    \/ RunQueriesWhileExit
    \/ RunQueriesAttemptOk
    \/ RunQueriesExecuteError
    \/ RunQueriesFetchOrCommitError
    \/ RunQueriesOtherException
    \/ RunQueriesClose
SpecRetry == InitRetry /\ [][NextRetry]_vars

\* the same under the code's scheduling: each function is one sequential
\* thread of control, and every connect, execute, fetchall, commit, close and
\* sleep call returns, so a call that can take its next step does take it
SpecRetryFair == SpecRetry /\ WF_vars(NextRetry)

\* teardown() called
InitTeardown ==
    /\ td = TeardownEntry
    /\ tc = TcIdle /\ rq = RqIdle /\ db = DbFresh /\ su = SuIdle
    /\ pk = NoFile /\ dumped = << >> /\ m = MIdle /\ wh = WhIdle
NextTeardown ==
    \/ DeleteClusterCall
    \/ DeleteClusterWait
    \/ DeleteSubnetGroup
    \/ DeleteIamRoleDetach
    \/ DeleteIamRoleDelete
    \/ DeleteSecurityGroupDescribe
    \/ DeleteSecurityGroupDelete
SpecTeardown == InitTeardown /\ [][NextTeardown]_vars

\* run_and_pickle_setup() called, with or without a record left on disk
InitSetup ==
    /\ \E port \in Ports : su = SetupEntry(port)
    /\ \/ pk = NoFile /\ dumped = << >>
       \/ pk = << PickleDump(StoredRecord) >> /\ dumped = << StoredRecord >>
    /\ m = MStart("setup", "setup")
    /\ tc = TcIdle /\ rq = RqIdle /\ db = DbFresh /\ td = TdIdle /\ wh = WhIdle
NextSetup ==
    \/ CreateIamRole
    \/ CreateSecurityGroup
    \/ CreateSubnetGroup
    \/ SettleDelay
    \/ LaunchRedshiftCluster
    \/ SetupReturn
    \/ RunAndPickleSetupDump
    \/ MainPropagate
SpecSetup == InitSetup /\ [][NextSetup]_vars

\* the tuples setup() returns: MASTER_USERNAME, MASTER_PASSWORD, DB_NAME and
\* REGION are read from dwh.cfg, the endpoint and the role ARN are answers of
\* the control plane; each takes two values.  The port is never passed.
SessionRecords ==
    { [config |-> RedshiftConfig(username, password, endpoint, dbName),
       role_arn |-> roleArn, region |-> region] :
          username \in {"MASTER_USERNAME", "awsuser"},
          password \in {"MASTER_PASSWORD", "Passw0rd"},
          endpoint \in {"endpoint", "endpoint.b"},
          dbName \in {"DB_NAME", "dev"},
          roleArn \in {"role_arn", "role_arn.b"},
          region \in {"REGION", "us-west-2"} }

\* run_and_pickle_setup() at the return of setup() with every such tuple and
\* every PORT, followed by the commands that call load_pickled_setup()
InitPickle ==
    /\ \E t \in SessionRecords, port \in Ports :
          su = [SuIdle EXCEPT !.pc = "returned", !.calls = SetupCalls,
                              !.port = port,
                              !.ingressPort = port,
                              !.clusterPort = port,
                              !.result = << t >>]
    /\ m = MStart("setup", "setup")
    /\ pk = NoFile /\ dumped = << >>
    /\ tc = TcIdle /\ rq = RqIdle /\ db = DbFresh /\ td = TdIdle /\ wh = WhIdle
NextPickle ==
    \/ RunAndPickleSetupDump
    \/ MainEtl
    \/ MainSample
SpecPickle == InitPickle /\ [][NextPickle]_vars

\* the rows a table left by an earlier run holds
OldRows(name) ==
    CASE name \in {"staging_logs", "staging_events"}
           -> SetToBag({[artist |-> <<"Y">>, song |-> <<"X">>, userId |-> <<42>>,
                         ts |-> <<1000>>]})
      [] name = "staging_songs"
           -> SetToBag({[title |-> <<"X">>, artist_name |-> <<"Y">>,
                         song_id |-> <<"S1">>, artist_id |-> <<"A1">>]})
      [] name = "songplays"
           -> SetToBag({[start_time |-> <<1>>, user_id |-> <<42>>,
                         song_id |-> <<"S1">>, artist_id |-> <<"A1">>]})
      [] name = "users" -> SetToBag({[user_id |-> <<42>>]})
      [] name = "songs"
           -> SetToBag({[song_id |-> <<"S1">>, title |-> <<"X">>,
                         artist_id |-> <<"A1">>]})
      [] name = "artists" -> SetToBag({[artist_id |-> <<"A1">>, name |-> <<"Y">>]})
      [] name = "time" -> SetToBag({[start_time |-> <<1>>]})

\* the schema states drawn: every table is absent or holds its old rows
SchemaStates ==
    {[name \in Tables |->
         IF name \in present THEN [exists |-> TRUE, rows |-> OldRows(name)]
                             ELSE Absent] : present \in SUBSET Tables}
\* a fresh cluster
FreshSchema == [name \in Tables |-> Absent]
\* the bucket contents drawn
BucketStates == [logs : SUBSET LogRows, songs : SUBSET SongRows]
OldBucket ==
    [logs |-> {[artist |-> <<"Y">>, song |-> <<"X">>, userId |-> <<42>>, ts |-> <<1000>>]},
     songs |-> {[title |-> <<"X">>, artist_name |-> <<"Y">>, song_id |-> <<"S1">>,
                 artist_id |-> <<"A1">>]}]

\* --etl run again and again against one warehouse: every schema state with
\* the bucket of the earlier run, and a fresh cluster with every bucket
InitWarehouse ==
    /\ \/ \E t \in SchemaStates : wh = WarehouseEntry(t, OldBucket, MaxBatchRuns)
       \/ \E s3 \in BucketStates : wh = WarehouseEntry(FreshSchema, s3, MaxBatchRuns)
    /\ tc = TcIdle /\ rq = RqIdle /\ db = DbFresh /\ td = TdIdle /\ su = SuIdle
    /\ pk = << PickleDump(StoredRecord) >> /\ dumped = << StoredRecord >> /\ m = MIdle
NextWarehouse ==
    \/ WarehouseBatchStart
    \/ WarehouseBatchAbandoned
    \/ WarehouseStatement
    \/ WarehouseBatchEnd
SpecWarehouse == InitWarehouse /\ [][NextWarehouse]_vars

\* the command surface: main invoked again and again, each time with one of
\* --setup, --etl, --sample, --teardown
Init ==
    /\ \/ pk = NoFile /\ dumped = << >>
       \/ pk = << PickleDump(StoredRecord) >> /\ dumped = << StoredRecord >>
    /\ m = MIdle
    /\ tc = TcIdle /\ rq = RqIdle /\ db = DbFresh /\ td = TdIdle /\ su = SuIdle
    /\ wh = WhIdle
Next ==
    \/ MainSetup
    \/ CreateIamRole
    \/ CreateSecurityGroup
    \/ CreateSubnetGroup
    \/ SettleDelay
    \/ LaunchRedshiftCluster
    \/ SetupReturn
    \/ RunAndPickleSetupDump
    \/ MainPropagate
    \/ MainMissingRecord
    \/ MainEtl
    \/ TestConnectionAttemptOk
    \/ TestConnectionAttemptFail
    \/ EtlFirstBatch
    \/ EtlNextBatch
    \/ EtlDone
    \/ MainSample
    \/ SampleDone
    \/ RunQueriesConnectOk
    \/ RunQueriesConnectFail
    \/ RunQueriesCursorOk
    \/ RunQueriesCursorFail
    \/ RunQueriesForNext
    \/ RunQueriesWhileExit
    \/ RunQueriesAttemptOk
    \/ RunQueriesExecuteError
    \/ RunQueriesFetchOrCommitError
    \/ RunQueriesOtherException
    \/ RunQueriesClose
    \/ MainTeardown
    \/ DeleteClusterCall
    \/ DeleteClusterWait
    \/ DeleteSubnetGroup
    \/ DeleteIamRoleDetach
    \/ DeleteIamRoleDelete
    \/ DeleteSecurityGroupDescribe
    \/ DeleteSecurityGroupDelete
    \/ RunTeardownUnlink
Spec == Init /\ [][Next]_vars

(* ------------------------------- claims -------------------------------- *)
TcFinished == tc.pc \in {"returned", "raised"}

\* C1 (as stated): against a target whose every connect fails,
\* test_connection with retries = N makes exactly N connect attempts and then
\* raises; it never returns normally.  Fails for N = 0.
C1_AlwaysFailingRaises ==
    (TcFinished /\ tc.failsFirst > tc.retries)
        => (tc.connects = tc.retries /\ tc.pc = "raised")

\* C2: against a target whose first k < N connects fail and whose next connect
\* succeeds, test_connection makes exactly k+1 connect attempts, closes the
\* probe connection, returns normally and never connects after the success.
C2_SucceedsAfterKFailures ==
    (tc.pc # "idle" /\ tc.failsFirst < tc.retries)
        => /\ tc.pc # "raised"
           /\ tc.connects <= tc.failsFirst + 1
           /\ tc.closes = (IF tc.pc = "returned" THEN 1 ELSE 0)
           /\ tc.pc = "returned" => tc.connects = tc.failsFirst + 1
C2_Witness ==
    /\ tc.pc = "returned" /\ tc.failsFirst = 2 /\ tc.retries = 3
    /\ tc.connects = 3 /\ tc.closes = 1

RqFinished == rq.pc \in {"returned", "raised"}
Stmts == 1..Len(rq.queries)
\* run_queries has set success = True for statement i
CountedSuccess(i) ==
    rq.done[i] = "committed" \/ (rq.pc = "while" /\ i = rq.idx /\ rq.success)
\* every execute call so far either raised psycopg2.Error or was committed
NoOtherException ==
    \A i \in Stmts :
        rq.execs[i] = rq.fails[i] + (IF CountedSuccess(i) THEN 1 ELSE 0)
\* the batch ran on an open connection; statement j failed on every attempt
\* and no attempt of another statement failed
OnlyStatementFails(j) ==
    /\ RqFinished /\ rq.reports = 0 /\ NoOtherException
    /\ rq.fails[j] = rq.execs[j]
    /\ \A i \in Stmts \ {j} : rq.fails[i] = 0
SkippedAndRestCommitted(j) ==
    /\ rq.pc = "returned"
    /\ rq.execs[j] = rq.retries
    /\ rq.done[j] = "skipped"
    /\ \A i \in Stmts \ {j} :
          rq.done[i] = "committed" /\ rq.execs[i] = 1 /\ i \in db.applied

\* C3 (as stated): in a batch where statement j fails on every attempt and all
\* other statements succeed, j gets exactly `retries` attempts and is skipped,
\* every other statement is executed and committed, and run_queries returns.
\* Fails for retries = 0, where no statement is attempted at all.
C3_Original ==
    \A j \in Stmts : OnlyStatementFails(j) => SkippedAndRestCommitted(j)
\* C3 (amended): for retries >= 1, in a batch where statement j fails on every
\* attempt and all other statements succeed, j gets exactly `retries` attempts
\* and is skipped, every other statement is executed once and committed, and
\* run_queries returns normally.
C3_SkipOneCommitRest ==
    \A j \in Stmts :
        (rq.retries >= 1 /\ OnlyStatementFails(j)) => SkippedAndRestCommitted(j)
C3_Witness ==
    /\ Len(rq.queries) = 3 /\ rq.retries = 3 /\ OnlyStatementFails(2)
    /\ rq.execs = << 1, 3, 1 >> /\ rq.done = << "committed", "skipped", "committed" >>
    /\ rq.pc = "returned"

FixedTeardownOrder ==
    << "DeleteCluster", "DeletePlacementGroup", "DeleteAccessRole", "DeleteIngressRule" >>
IsPrefix(s, t) == Len(s) <= Len(t) /\ \A i \in 1..Len(s) : s[i] = t[i]

\* C4: whatever the outcome of each call, teardown() enters each of its four
\* steps exactly once and returns normally; no exception leaves it.
C4_AllStepsOnceNeverRaises ==
    (td.pc # "idle")
        => /\ td.pc # "raised"
           /\ \A i, j \in 1..Len(td.steps) : td.steps[i] = td.steps[j] => i = j
           /\ td.pc = "returned" => (td.steps = FixedTeardownOrder /\ td.ended = 4)
C4_Witness ==
    /\ td.pc = "returned" /\ td.warnings = 4 /\ td.steps = FixedTeardownOrder
    /\ \A i \in 1..Len(td.calls) : ~td.calls[i].ok

\* C5: the steps of teardown() start in the order DeleteCluster,
\* DeletePlacementGroup, DeleteAccessRole, DeleteIngressRule, each only after
\* the previous one has ended; the subnet-group delete is issued only after
\* the cluster delete-and-wait step has ended.
C5_StepsInOrder ==
    /\ IsPrefix(td.steps, FixedTeardownOrder)
    /\ Len(td.steps) <= td.ended + 1
    /\ \A p \in 1..Len(td.calls) :
          td.calls[p].name = "delete_cluster_subnet_group"
             => /\ p > 1
                /\ \/ td.calls[p - 1] = Call("delete_cluster", FALSE)
                   \/ td.calls[p - 1].name = "wait_cluster_deleted"
C5_Witness ==
    /\ td.pc = "returned"
    /\ Len(td.calls) >= 3
    /\ td.calls[2] = Call("wait_cluster_deleted", FALSE)
    /\ td.calls[3].name = "delete_cluster_subnet_group"

FixedSetupOrder ==
    << "create_role", "attach_role_policy",
       "describe_vpcs", "create_security_group", "authorize_security_group_ingress",
       "describe_subnets", "create_cluster_subnet_group", "describe_cluster_subnet_groups",
       "sleep",
       "describe_security_groups", "create_cluster", "wait_cluster_available",
       "describe_clusters" >>

\* C6: setup() issues its calls in the order CreateAccessRole,
\* CreateIngressRule, CreatePlacementGroup, settle delay, LaunchCluster, none
\* twice; the first failing call ends setup() with the error, no later call
\* is issued and run_and_pickle_setup writes no session record.
C6_OrderedAndFatal ==
    /\ IsPrefix(su.calls, FixedSetupOrder)
    /\ su.error # "none" => (su.pc = "raised" /\ su.result = << >>)
    /\ su.pc \in {"assemble", "returned"} => su.calls = FixedSetupOrder
    /\ (m.cmd = "setup" /\ m.exit = "exception") => m.dumps = 0
    /\ m.dumps > 0 => (m.cmd = "setup" /\ m.exit = "ok")
C6_Witness ==
    /\ su.pc = "raised"
    /\ Len(su.calls) = 11 /\ su.calls[11] = "create_cluster"
    /\ pk = NoFile /\ m.dumps = 0

\* C7 (as stated): the batch connection, once opened, is closed on every exit
\* path of run_queries.  Fails when conn.cursor() raises and when an exception
\* that is not a psycopg2.Error escapes.
C7_ConnectionClosedOnExit ==
    (RqFinished /\ rq.conn # "none") => rq.conn = "closed"

\* C8: every statement run_queries has counted as a success is committed in
\* the warehouse, and stays so whatever happens later in the batch (failures,
\* exhausted retries, an escaping error, the close of the connection).
C8_CommitPerStatement ==
    \A i \in Stmts :
        CountedSuccess(i) => i \in db.applied
C8_Witness ==
    /\ Len(rq.queries) = 3
    /\ rq.done[1] = "committed" /\ rq.done[2] = "skipped"
    /\ rq.pc = "raised"
    /\ 1 \in db.applied

\* C9: when the batch connection cannot be opened, run_queries has made one
\* connect attempt, executed no statement, reported the failure once and
\* returned normally.
C9_ConnectFailureAbandonsBatch ==
    (RqFinished /\ rq.conn = "none")
        => /\ rq.pc = "returned"
           /\ rq.connects = 1
           /\ rq.reports = 1
           /\ \A i \in Stmts : rq.execs[i] = 0 /\ rq.done[i] = "pending"
           /\ db.applied = {}
C9_Witness ==
    /\ rq.pc = "returned" /\ rq.conn = "none" /\ rq.connects = 1
    /\ Len(rq.queries) = 2

\* C10 (as stated): on every command path that runs a batch (--etl, --sample)
\* test_connection has returned normally before run_queries is first called,
\* and no batch runs once the prober has raised.  Fails on --sample, which
\* never calls test_connection.
C10_ProbedBeforeBatches ==
    /\ rq.pc # "idle" => m.probed
    /\ Len(m.batches) > 0 => m.probed

\* C11 (as stated): a command other than --setup that is invoked while the
\* session record is missing makes no warehouse and no control-plane call (it
\* ends with the missing-record error).  Fails for --teardown, which runs all
\* of teardown() without looking for the record.
C11_NoCallWithoutRecord ==
    (pk = NoFile /\ m.cmd \in {"etl", "sample", "teardown"})
        => /\ tc.pc = "idle" /\ rq.pc = "idle" /\ td.calls = << >>
           /\ m.cmd \in {"etl", "sample"} => (m.pc = "shell" /\ m.exit = "exit1")

\* C12: when run_teardown() has returned the session record does not exist,
\* whatever the teardown steps did and whether or not the record existed
\* before; an --etl or --sample command that follows ends with the
\* missing-record exit and runs nothing.
C12_TeardownRemovesRecord ==
    [][ /\ (m'.cmd = "teardown" /\ m'.pc = "shell") => pk' = NoFile
        /\ (m.cmd = "teardown" /\ m.pc = "shell" /\ m'.cmd \in {"etl", "sample"})
              => (m'.pc = "shell" /\ m'.exit = "exit1" /\ tc' = TcIdle /\ rq' = RqIdle)
      ]_vars
C12_Witness ==
    m.cmd = "teardown" /\ m.pc = "shell" /\ m.exit = "ok" /\ pk = NoFile

\* C13: the tuple load_pickled_setup returns to a command has the username,
\* password, endpoint, port, database name, role id and region of the tuple
\* run_and_pickle_setup handed to pickle.dump.
C13_RoundTrip ==
    m.loaded # << >>
        => /\ dumped # << >>
           /\ m.loaded[1].config.username = dumped[1].config.username
           /\ m.loaded[1].config.password = dumped[1].config.password
           /\ m.loaded[1].config.redshift_endpoint = dumped[1].config.redshift_endpoint
           /\ m.loaded[1].config.redshift_port = dumped[1].config.redshift_port
           /\ m.loaded[1].config.db_name = dumped[1].config.db_name
           /\ m.loaded[1].role_arn = dumped[1].role_arn
           /\ m.loaded[1].region = dumped[1].region
           /\ m.loaded[1] = dumped[1]
\* --etl has loaded the record a --setup of this run wrote from a dwh.cfg
\* and control-plane answers other than those of the record left on disk
C13_Witness ==
    /\ m.cmd = "etl" /\ m.loaded # << >>
    /\ dumped = << [config |-> RedshiftConfig("awsuser", "Passw0rd", "endpoint.b", "dev"),
                    role_arn |-> "role_arn.b", region |-> "us-west-2"] >>
    /\ m.loaded[1].config.username = "awsuser"
    /\ m.loaded[1].role_arn = "role_arn.b" /\ m.loaded[1].region = "us-west-2"

\* C14: when the DROP batch is run twice in a row against the warehouse,
\* whatever tables it held, no statement of the second run fails and the
\* second run leaves the tables as the first run left them.
C14_DropBatchIdempotent ==
    (wh.pc \in {"batch", "between"} /\ wh.prev = "DROP" /\ wh.last = "DROP")
        => /\ wh.failed = << >>
           /\ wh.pc = "between" => wh.tables = wh.before
C14_Witness ==
    /\ wh.pc = "between" /\ wh.prev = "DROP" /\ wh.last = "DROP"
    /\ wh.failed = << >>
    /\ wh.tables["staging_logs"].exists /\ ~wh.tables["songplays"].exists

\* the INSERT batch has run on staging tables that exist and on empty
\* songplays and time tables
TransformDone ==
    /\ wh.pc = "between" /\ wh.last = "INSERT"
    /\ wh.before["staging_logs"].exists /\ wh.before["staging_songs"].exists
    /\ wh.before["songplays"] = Empty /\ wh.before["time"] = Empty

\* C15 (as stated): after the INSERT batch every staging_logs row with a
\* non-null artist has a songplays row, with the song_id and artist_id of the
\* staging_songs row matching on title and artist name or with nulls when
\* none matches; a staging_logs row with a NULL artist has no songplays row
\* and no time row; one log row (42, X, Y) and one song row (X, Y, S1, A1)
\* give exactly the songplays row (42, S1, A1).  Fails when a row with an
\* artist has no userId: the NOT NULL column user_id rejects the INSERT.
C15_TransformRows ==
    TransformDone =>
        LET logs == BagToSet(wh.tables["staging_logs"].rows)
            songs == BagToSet(wh.tables["staging_songs"].rows)
            plays == BagToSet(wh.tables["songplays"].rows)
            times == BagToSet(wh.tables["time"].rows)
        IN  /\ \A se \in logs :
                  se.artist # Null =>
                     \E r \in plays :
                        /\ r.user_id = se.userId
                        /\ r.start_time = StartTime(se.ts)
                        /\ \/ \E ss \in songs :
                                 /\ JoinCondition(se, ss)
                                 /\ r.song_id = ss.song_id
                                 /\ r.artist_id = ss.artist_id
                           \/ /\ \A ss \in songs : ~JoinCondition(se, ss)
                              /\ r.song_id = Null /\ r.artist_id = Null
            /\ \A se \in logs :
                  se.artist = Null =>
                     /\ \A r \in plays : r.start_time # StartTime(se.ts)
                     /\ \A r \in times : r.start_time # StartTime(se.ts)
            /\ ( /\ wh.tables["staging_logs"].rows =
                       SetToBag({[artist |-> <<"Y">>, song |-> <<"X">>,
                                  userId |-> <<42>>, ts |-> <<1000>>]})
                 /\ wh.tables["staging_songs"].rows =
                       SetToBag({[title |-> <<"X">>, artist_name |-> <<"Y">>,
                                  song_id |-> <<"S1">>, artist_id |-> <<"A1">>]}) )
                  => wh.tables["songplays"].rows =
                        SetToBag({[start_time |-> <<1>>, user_id |-> <<42>>,
                                   song_id |-> <<"S1">>, artist_id |-> <<"A1">>]})

\* the cluster was requested and the wait for its availability was entered
Launched(calls) ==
    \E i, j \in 1..Len(calls) :
        i < j /\ calls[i] = "create_cluster" /\ calls[j] = "wait_cluster_available"

\* C16: setup() returns, and run_and_pickle_setup writes the session record,
\* only after create_cluster was submitted and the wait for the available
\* state returned without error; a failing wait or any other failing call
\* leaves setup() as an exception, and the command ends without writing.
C16_RecordOnlyAfterAvailable ==
    [][ /\ (su'.pc \in {"assemble", "returned"} \/ su'.result # << >>)
              => (Launched(su'.calls) /\ su'.error = "none")
        /\ (m'.dumps = m.dumps + 1)
              => /\ su.result # << >> /\ Launched(su.calls) /\ su.error = "none"
                 /\ pk' = << PickleDump(su.result[1]) >>
        /\ (su'.error # "none") => (su'.pc = "raised" /\ su'.result = << >>)
        /\ (m'.exit = "exception") => (m'.dumps = 0 /\ pk' = pk)
      ]_vars
C16_Witness ==
    /\ m.cmd = "setup" /\ m.exit = "ok" /\ m.dumps = 1
    /\ pk = << PickleDump(StoredRecord) >>

\* C17 (as stated): the failure of one statement leaves the batch connection
\* as it was: whenever run_queries is about to make an attempt, the
\* transaction of the connection is not in the failed state, so the attempt
\* succeeds exactly when the statement itself would.  Fails after a statement
\* error raised by the server: the handler does not roll back.
C17_NoAttemptOnFailedTransaction ==
    (rq.pc = "while" /\ RqLoopCond(rq.attempt, rq.retries, rq.success))
        => ~db.aborted

\* C18: run_queries opens one connection per call and takes the statements
\* in list order: a statement is first attempted only after the one before it
\* was committed or used up its `retries` attempts, a committed statement is
\* not attempted again, and no statement gets more than `retries` attempts.
C18_OneConnectionInOrder ==
    [][ /\ rq'.connects <= 1
        /\ \A i \in 1..Len(rq'.queries) :
              /\ rq'.execs[i] <= rq'.retries
              /\ (i > 1 /\ rq'.execs[i] > 0)
                    => \/ rq'.done[i - 1] = "committed"
                       \/ rq'.done[i - 1] = "skipped" /\ rq'.execs[i - 1] = rq'.retries
              /\ (rq'.queries = rq.queries /\ CountedSuccess(i))
                    => rq'.execs[i] = rq.execs[i]
      ]_vars
C18_Witness ==
    /\ rq.pc = "returned" /\ rq.connects = 1 /\ rq.retries = 3
    /\ rq.execs = << 3, 1, 2 >>
    /\ rq.done = << "skipped", "committed", "committed" >>

\* C19: a statement that was executed but whose fetchall or commit raised is
\* not counted as a success: the attempt is counted as failed and, while
\* attempts remain, the loop makes another attempt of the same statement,
\* whether the statement returns rows or not.
C19_SuccessOnlyAfterCommit ==
    \A i \in Stmts :
        i \in db.pending
           => /\ ~CountedSuccess(i)
              /\ rq.fails[i] >= 1
              /\ (rq.pc = "while" /\ rq.idx = i)
                    => /\ rq.attempt = rq.fails[i] + 1
                       /\ rq.attempt <= rq.retries
                             => RqLoopCond(rq.attempt, rq.retries, rq.success)
C19_Witness ==
    /\ rq.pc = "while" /\ rq.idx = 2 /\ 2 \in db.pending
    /\ rq.queries[1] = "DROP_SONGPLAYS_TABLE" /\ rq.queries[2] = "TOP_PLAYED_SONGS_QUERY"
    /\ rq.done[1] = "committed" /\ rq.fails[1] = 1
    /\ rq.attempt = 2 /\ rq.retries = 3 /\ rq.execs[2] = 1

EtlOrder == << "DROP", "CREATE", "COPY", "INSERT" >>

\* C20 (as stated): --etl starts its batches in the order DROP, CREATE, COPY,
\* INSERT, each once and only after the prober returned, each on one
\* connection of its own that is closed when its run_queries call returns;
\* a command that ends normally has started all four, whatever statements
\* were skipped and whatever batches were abandoned.  Fails on the
\* connection: a batch whose conn.cursor() raises returns with it open (C7).
C20_FourBatchesInOrder ==
    (m.cmd = "etl")
        => /\ IsPrefix(m.batches, EtlOrder)
           /\ m.batches # << >> => m.probed
           /\ (m.pc = "shell" /\ m.exit = "ok") => m.batches = EtlOrder
           /\ m.pc = "etl_batch"
                 => /\ rq.connects <= 1
                    /\ (rq.pc = "returned" /\ rq.conn # "none") => rq.conn = "closed"

\* the sleeps that follow `fails` failed attempts of one target or statement:
\* one after each failure but the one that used up the attempts
SleepsAfter(fails, retries) ==
    IF fails = 0 THEN 0 ELSE IF fails < retries THEN fails ELSE fails - 1
RECURSIVE SleepsOfBatch(_)
SleepsOfBatch(n) ==
    IF n = 0 THEN 0 ELSE SleepsAfter(rq.fails[n], rq.retries) + SleepsOfBatch(n - 1)

\* C21: in test_connection and in run_queries a sleep follows a failed
\* attempt only when another attempt follows it, and every sleep lasts
\* `delay`: N failures that use up the attempts give N-1 sleeps, fewer
\* failures give one sleep each, a success gives none.
C21_SleepOnlyBetweenAttempts ==
    /\ tc.pc # "idle"
          => /\ Len(tc.sleeps) = SleepsAfter(tc.connects - tc.closes, tc.retries)
             /\ \A k \in 1..Len(tc.sleeps) : tc.sleeps[k] = tc.delay
    /\ rq.pc # "idle"
          => /\ Len(rq.sleeps) = SleepsOfBatch(Len(rq.queries))
             /\ \A k \in 1..Len(rq.sleeps) : rq.sleeps[k] = rq.delay
C21_Witness ==
    /\ rq.pc = "returned" /\ rq.retries = 3 /\ rq.delay = 10
    /\ rq.fails = << 3, 1 >> /\ rq.done = << "skipped", "committed" >>
    /\ rq.sleeps = << 10, 10, 10 >>

\* C22: when describe_security_groups finds no default group,
\* launch_redshift_cluster raises before create_cluster is submitted: setup()
\* ends with the error, the command ends with the exception and writes no
\* record, and the role, the ingress rule and the subnet group created
\* before stay as they are (no delete call is issued).
C22_NoDefaultGroupIsFatal ==
    [][ /\ su'.noDefault
              => /\ su'.pc = "raised" /\ su'.error = "ResourceWarning"
                 /\ su'.result = << >>
                 /\ su'.calls = SubSeq(FixedSetupOrder, 1, 10)
                 /\ \A k \in 1..Len(su'.calls) : su'.calls[k] # "create_cluster"
                 /\ su'.clusterPort = 0
                 /\ td' = TdIdle
        /\ su.noDefault
              => (m'.exit = "exception" /\ m'.dumps = 0 /\ pk' = pk /\ td' = TdIdle)
      ]_vars
C22_Witness ==
    /\ su.noDefault /\ su.pc = "raised"
    /\ Len(su.calls) = 10 /\ su.calls[10] = "describe_security_groups"
    /\ su.calls[1] = "create_role" /\ su.calls[5] = "authorize_security_group_ingress"
    /\ su.calls[7] = "create_cluster_subnet_group"

\* C23 (as stated): the RedshiftConfig setup() returns carries the port the
\* cluster was launched on and the ingress rule was opened for, for every
\* PORT of dwh.cfg.  Fails for every PORT other than 5439: setup() gives the
\* RedshiftConfig no port and the dataclass default stands.
C23_ConfigCarriesClusterPort ==
    su.result # << >>
        => /\ su.result[1].config.redshift_port = su.clusterPort
           /\ su.result[1].config.redshift_port = su.ingressPort

\* the tables CREATE_TABLE_STATEMENTS creates
CreatedTables ==
    {CreateTarget(CREATE_TABLE_STATEMENTS[i]) : i \in 1..Len(CREATE_TABLE_STATEMENTS)}

\* C24 (as stated): after the DROP batch and the CREATE batch of
\* create_tables have run with no statement skipped, each of the seven tables
\* of CREATE_TABLE_STATEMENTS exists and is empty, whatever the tables held
\* before.  Fails for staging_logs, which no DROP statement names.
C24_CreateTablesResetsSchema ==
    (wh.pc = "between" /\ wh.prev = "DROP" /\ wh.last = "CREATE" /\ wh.failed = << >>)
        => \A name \in CreatedTables : wh.tables[name] = Empty

\* the control-plane call `name` was issued by teardown()
TdCalled(name) == \E i \in 1..Len(td.calls) : td.calls[i].name = name

\* C25: inside the teardown steps every sub-operation is attempted: once
\* teardown() has returned, a policy detach was followed by a delete of the
\* role, and every security group the lookup found received a delete attempt
\* (no matching group is left unvisited), also when the detach or the delete
\* of an earlier match failed.
C25_EverySubOperationAttempted ==
    td.pc = "returned"
        => /\ TdCalled("detach_role_policy") => TdCalled("delete_role")
           /\ td.groups = 0

\* number of cur.execute calls made for the first n statements of the batch
RECURSIVE ExecsOfBatch(_)
ExecsOfBatch(n) == IF n = 0 THEN 0 ELSE rq.execs[n] + ExecsOfBatch(n - 1)

\* C26: termination.  For every batch of m statements, every retries bound R
\* and every pattern of psycopg2 failures, run_queries makes at most m*R
\* execute attempts and eventually returns (it ends by raising only when an
\* exception that is not a psycopg2.Error escaped); test_connection with
\* bound N makes at most N connect attempts and eventually returns or raises.
C26_Termination ==
    /\ [](tc.connects <= tc.retries)
    /\ [](ExecsOfBatch(Len(rq.queries)) <= Len(rq.queries) * rq.retries)
    /\ (tc.pc = "loop") ~> TcFinished
    /\ (rq.pc = "connect") ~> (rq.pc = "returned" \/ (rq.pc = "raised" /\ ~NoOtherException))
\* a batch of MaxBatch statements, each of which failed on all MaxRetries
\* attempts, has returned after exactly m*R execute attempts
C26_Witness ==
    /\ rq.pc = "returned"
    /\ Len(rq.queries) = MaxBatch /\ rq.retries = MaxRetries
    /\ NoOtherException
    /\ ExecsOfBatch(Len(rq.queries)) = MaxBatch * MaxRetries
    /\ \A i \in Stmts : rq.done[i] = "skipped"
====
